---- MODULE Spec2Model ----
(***************************************************************************)
(* Encrypted framed connection of ikago (package pcap, TCPConn) over a     *)
(* connected pair of stream sockets.                                       *)
(*                                                                         *)
(* Two TCPConn objects, 1 and 2, are the two ends of one TCP connection.   *)
(* wire[c] is the byte stream in flight towards c.  The codec              *)
(* (crypto.Crypt) and the frame extractor (Desticker) are collaborators    *)
(* whose code is outside the source file; they are modelled from their     *)
(* specified contracts.                                                    *)
(***************************************************************************)
EXTENDS Integers, Sequences, FiniteSets, TLC

VARIABLES crypt, now, closed, wire, rdl, wdl, buffer, destick, stash,
          stashId, written, delivered, last, call, hist, srv, race

\* The connected pair.
connVars == <<crypt, now, closed, wire, rdl, wdl, buffer, destick, stash,
              stashId, written, delivered, last>>

vars == <<connVars, call, hist, srv, race>>

\* ------------------------------------------------------------------ bounds
\* Successful Write calls over both connections.
MaxWrites == 2
\* The clock stops advancing once it has reached MaxClock (seconds).
MaxClock == 40
\* Seconds that pass in one step of the clock.
TickStep == 20
\* Plaintext bytes are 0 .. ByteMod-1.
ByteMod == 3
\* Pieces in an address text.
MaxLexemes == 3
\* Entries in a MultiIPAddr.
MaxIPs == 3
\* Connections made by Accept and DialTCP.
MaxConns == 2

\* --------------------------------------------------------------- constants
\* const keepSticky = 30 * time.Second
keepSticky == 30

Conns == {1, 2}
Peer(c) == 3 - c
\* The end whose receive side and deadlines are driven; the other end is the
\* peer, which writes and closes.
Local == {1}

\* Payloads handed to Write.  A frame is a header byte h followed by h more
\* bytes (as an IP packet carries its own total length): <<1, 0>> is a whole
\* frame, <<1>> is the first byte of a two-byte frame.
Payloads == {<<1, 0>>, <<1>>}
\* Lengths of the destination slice handed to Read.
BufLens == {1, 2}
\* Deadlines handed to the deadline setters: the zero time and one instant.
Deadlines == {0, TickStep + TickStep}
\* Codec implementations behind the crypto.Crypt interface.
Crypts == {"stream", "aead"}

Min(a, b) == IF a < b THEN a ELSE b

\* ------------------------------------------------------------------- codec
RECURSIVE Sum(_)
Sum(s) == IF s = <<>> THEN 0 ELSE s[1] + Sum(Tail(s))

\* Byte-wise cipher: every byte is shifted by the key.
StreamEnc(p) == [i \in 1..Len(p) |-> (p[i] + 1) % ByteMod]
StreamDec(q) == [i \in 1..Len(q) |-> (q[i] + ByteMod - 1) % ByteMod]

\* Authenticated cipher: the shifted body followed by an authentication tag
\* over the whole message; tags lie outside the body's bytes.
Tag(p) == ByteMod + Len(p) + Sum(p)
AeadEnc(p) == StreamEnc(p) \o <<Tag(p)>>
AeadBody(q) == SubSeq(q, 1, Len(q) - 1)
AeadValid(q) ==
    /\ Len(q) >= 1
    /\ \A i \in 1..(Len(q) - 1) : q[i] < ByteMod
    /\ q[Len(q)] = Tag(StreamDec(AeadBody(q)))

\* crypt.Encrypt(b)
Encrypt(k, p) == IF k = "stream" THEN StreamEnc(p) ELSE AeadEnc(p)

\* crypt.Decrypt(b): [ok, out]
Decrypt(k, q) ==
    IF k = "stream" THEN [ok |-> TRUE, out |-> StreamDec(q)]
    ELSE IF AeadValid(q) THEN [ok |-> TRUE, out |-> StreamDec(AeadBody(q))]
    ELSE [ok |-> FALSE, out |-> <<>>]

\* --------------------------------------------------------- frame extractor
\* A whole frame: header byte h, then h bytes.
IsFrame(p) == Len(p) >= 1 /\ Len(p) = p[1] + 1

RECURSIVE Extract(_)
Extract(buf) ==
    IF buf = <<>> \/ Len(buf) < buf[1] + 1
    THEN [frames |-> <<>>, rest |-> buf]
    ELSE LET r == Extract(SubSeq(buf, buf[1] + 2, Len(buf)))
         IN  [frames |-> <<SubSeq(buf, 1, buf[1] + 1)>> \o r.frames,
              rest |-> r.rest]

\* NewDesticker() followed by SetDeadline(keepSticky)
NewDesticker == [buf |-> <<>>, t |-> 0, deadline |-> keepSticky]

\* Partial bytes have been buffered for longer than the deadline.
Stale(d, t) == d.buf # <<>> /\ t - d.t > d.deadline

\* Desticker.Append(b) at time t: [ok, packets, d]
DestickAppend(d, b, t) ==
    IF Stale(d, t) THEN [ok |-> FALSE, packets |-> <<>>, d |-> d]
    ELSE LET r == Extract(d.buf \o b)
             nt == IF r.rest = <<>> THEN 0
                   ELSE IF d.buf = <<>> \/ r.frames # <<>> THEN t
                   ELSE d.t
         IN  [ok |-> TRUE, packets |-> r.frames,
              d |-> [d EXCEPT !.buf = r.rest, !.t = nt]]

\* ------------------------------------------------------------------ socket
\* Outcomes of net.TCPConn.Read on c's socket: an error with no bytes, or the
\* first n bytes in flight.  A read on an idle open socket blocks: no outcome.
SockRead(c) ==
    IF closed[c] THEN {[err |-> "closed", n |-> 0]}
    ELSE IF rdl[c] # 0 /\ now >= rdl[c] THEN {[err |-> "timeout", n |-> 0]}
    ELSE IF wire[c] # <<>>
         THEN {[err |-> "none", n |-> k] : k \in 1..Len(wire[c])}
    ELSE IF closed[Peer(c)] THEN {[err |-> "EOF", n |-> 0]}
    ELSE {}

\* Outcomes of net.TCPConn.Write on c's socket.
SockWrite(c) ==
    IF closed[c] THEN {"closed"}
    ELSE IF wdl[c] # 0 /\ now >= wdl[c] THEN {"timeout"}
    ELSE IF closed[Peer(c)] THEN {"epipe", "none"}
    ELSE {"none"}

SockErrors == {"closed", "timeout", "EOF", "epipe"}

\* ---------------------------------------------------------------- TCPConn
\* What the Read, Write or Close call of the latest step did and returned:
\* its result (n, err, data), the collaborator calls it made and what they
\* answered.  NoCall when the latest step was none of these.
NoCall ==
    [op |-> "none", conn |-> 0, blen |-> 0, payload |-> <<>>, n |-> 0,
     err |-> "none", data |-> <<>>, awaiting |-> FALSE,
     sockReads |-> 0, sockErr |-> "none", got |-> 0,
     decCalls |-> 0, decOk |-> FALSE, appCalls |-> 0, packets |-> 0,
     encCalls |-> 0, encArg |-> <<>>, encOk |-> FALSE,
     sockWrites |-> 0, sockData |-> <<>>, closes |-> 0]

\* Mutant: the stash is never looked at.
StashExhaustedAlways(st, id) == TRUE

\* if c.stash == nil || len(c.stash) <= c.stashId
StashExhausted(st, id) == Len(st) <= id

\* Mutant: the socket's error is never looked at.
SockFailedNever(so) == FALSE

\* n, err = c.conn.Read(c.buffer); if err != nil
SockFailed(so) == so.err # "none"

\* What a Read returns (n, err, data), the receive state it leaves (stash,
\* cursor, extractor, scratch buffer), the bytes it took from the socket and
\* the calls it made: calls = <<socket reads, Decrypt, Append, socket closes>>.
ReadRet(n, err, data, st, id, dk, buf, taken, calls) ==
    [n |-> n, err |-> err, data |-> data, stash |-> st, stashId |-> id,
     destick |-> dk, buffer |-> buf, taken |-> taken,
     sockReads |-> calls[1], decCalls |-> calls[2], appCalls |-> calls[3],
     closes |-> calls[4]]

\* Mutant: the socket's error is wrapped like a codec failure.
RetSockErrWrapped(so, st, id, dk, buf) ==
    ReadRet(0, "decrypt", <<>>, st, id, dk, buf, 0, <<1, 0, 0, 0>>)

\* return 0, err
RetSockErr(so, st, id, dk, buf) ==
    ReadRet(0, so.err, <<>>, st, id, dk, buf, 0, <<1, 0, 0, 0>>)

\* Mutant: the undecrypted bytes are handed to the extractor all the same.
RetDecryptErrFeed(chunk, st, id, dk) ==
    ReadRet(0, "decrypt", <<>>, st, id, [dk EXCEPT !.buf = @ \o chunk],
            chunk, Len(chunk), <<1, 1, 1, 0>>)

\* Mutant: a decryption failure closes the socket.
RetDecryptErrClose(chunk, st, id, dk) ==
    ReadRet(0, "decrypt", <<>>, st, id, dk, chunk, Len(chunk), <<1, 1, 0, 1>>)

\* return 0, &net.OpError{Op: "read", ..., Err: fmt.Errorf("decrypt: %w", err)}
RetDecryptErr(chunk, st, id, dk) ==
    ReadRet(0, "decrypt", <<>>, st, id, dk, chunk, Len(chunk), <<1, 1, 0, 0>>)

\* Mutant: the extractor's failure is swallowed.
RetDestickErrSwallowed(chunk, st, id, dk) ==
    ReadRet(0, "none", <<>>, st, id, dk, chunk, Len(chunk), <<1, 1, 1, 0>>)

\* return 0, &net.OpError{Op: "read", ..., Err: fmt.Errorf("destick: %w", err)}
RetDestickErr(chunk, st, id, dk) ==
    ReadRet(0, "destick", <<>>, st, id, dk, chunk, Len(chunk), <<1, 1, 1, 0>>)

\* Mutant: the empty result replaces the stash before the length is tested.
RetIncompleteReset(chunk, st, id, dk) ==
    ReadRet(0, "none", <<>>, <<>>, 0, dk, chunk, Len(chunk), <<1, 1, 1, 0>>)

\* if len(packets) == 0 { return 0, nil }
RetIncomplete(chunk, st, id, dk) ==
    ReadRet(0, "none", <<>>, st, id, dk, chunk, Len(chunk), <<1, 1, 1, 0>>)

\* Mutant: the cursor is advanced twice.
DeliverSkip(st, id, blen) ==
    [n |-> Len(st[id + 1]),
     data |-> SubSeq(st[id + 1], 1, Min(blen, Len(st[id + 1]))),
     stashId |-> id + 2]

\* Mutant: the cursor stays where it is.
DeliverStay(st, id, blen) ==
    [n |-> Len(st[id + 1]),
     data |-> SubSeq(st[id + 1], 1, Min(blen, Len(st[id + 1]))),
     stashId |-> id]

\* copy(b, c.stash[c.stashId]); c.stashId++; return len(c.stash[c.stashId-1]), nil
Deliver(st, id, blen) ==
    [n |-> Len(st[id + 1]),
     data |-> SubSeq(st[id + 1], 1, Min(blen, Len(st[id + 1]))),
     stashId |-> id + 1]

\* Read on receive state (st, id, dk, buf) with a destination of length blen,
\* socket outcome so over the bytes w in flight, codec k, at time t.
ReadCall(st, id, dk, buf, blen, so, w, k, t) ==
    IF StashExhausted(st, id)
    THEN IF SockFailed(so)
         THEN RetSockErr(so, st, id, dk, buf)
         ELSE LET chunk == SubSeq(w, 1, so.n)
                  dp == Decrypt(k, chunk)
              IN  IF ~dp.ok
                  THEN RetDecryptErr(chunk, st, id, dk)
                  ELSE LET a == DestickAppend(dk, dp.out, t)
                       IN  IF ~a.ok
                           THEN RetDestickErr(chunk, st, id, a.d)
                           ELSE IF Len(a.packets) = 0
                           THEN RetIncomplete(chunk, st, id, a.d)
                           ELSE LET r == Deliver(a.packets, 0, blen)
                                IN  ReadRet(r.n, "none", r.data, a.packets,
                                            r.stashId, a.d, chunk, so.n,
                                            <<1, 1, 1, 0>>)
    ELSE LET r == Deliver(st, id, blen)
         IN  ReadRet(r.n, "none", r.data, st, r.stashId, dk, buf, 0,
                     <<0, 0, 0, 0>>)

\* The record of what the extractor returned to c's Reads and of what those
\* Reads handed to their callers; kept when hist.on.
NoHist(on) ==
    [on |-> on, extracted |-> [c \in Conns |-> <<>>],
     handed |-> [c \in Conns |-> <<>>]]
Recorded(c, packets, r) ==
    [hist EXCEPT !.extracted[c] = @ \o packets,
                 !.handed[c] = IF r.err = "none" /\ r.n > 0
                               THEN Append(@, [n |-> r.n, data |-> r.data])
                               ELSE @]

\* func (c *TCPConn) Read(b []byte) (n int, err error)
Read(c, blen, so) ==
    LET r == ReadCall(stash[c], stashId[c], destick[c], buffer[c], blen, so,
                      wire[c], crypt, now)
        chunk == SubSeq(wire[c], 1, so.n)
        dp == Decrypt(crypt, chunk)
        a == DestickAppend(destick[c], dp.out, now)
    IN  /\ stash' = [stash EXCEPT ![c] = r.stash]
        /\ stashId' = [stashId EXCEPT ![c] = r.stashId]
        /\ destick' = [destick EXCEPT ![c] = r.destick]
        /\ buffer' = [buffer EXCEPT ![c] = r.buffer]
        /\ wire' = [wire EXCEPT ![c] = SubSeq(@, r.taken + 1, Len(@))]
        /\ closed' = [closed EXCEPT ![c] = @ \/ r.closes > 0]
        /\ delivered' = [delivered EXCEPT ![c] =
                            IF r.err = "none" /\ r.n > 0 THEN @ + 1 ELSE @]
        /\ last' = [NoCall EXCEPT !.op = "Read", !.conn = c, !.blen = blen,
                       !.n = r.n, !.err = r.err, !.data = r.data,
                       !.awaiting = (stashId[c] = Len(stash[c])),
                       !.sockReads = r.sockReads,
                       !.sockErr = IF r.sockReads > 0 THEN so.err ELSE "none",
                       !.got = IF r.sockReads > 0 THEN so.n ELSE 0,
                       !.decCalls = r.decCalls,
                       !.decOk = r.decCalls > 0 /\ dp.ok,
                       !.appCalls = r.appCalls,
                       !.packets = IF r.appCalls > 0 /\ a.ok
                                   THEN Len(a.packets) ELSE 0,
                       !.closes = r.closes]
        /\ hist' = IF hist.on
                   THEN Recorded(c, IF r.appCalls > 0 /\ a.ok THEN a.packets
                                    ELSE <<>>, r)
                   ELSE hist
        /\ UNCHANGED <<call, srv, race>>
        /\ UNCHANGED <<crypt, now, rdl, wdl, written>>

\* contents, err := c.crypt.Encrypt(b): the codec may fail (encOk = FALSE).
EncryptCall(k, b, encOk) ==
    IF encOk THEN [ok |-> TRUE, out |-> Encrypt(k, b)]
    ELSE [ok |-> FALSE, out |-> <<>>]

\* Mutant: the payload goes to the socket whether or not it was encrypted.
WriteCallPlain(k, b, encOk, so) ==
    [n |-> IF so = "none" THEN Len(b) ELSE 0, err |-> so, sockWrites |-> 1,
     sockData |-> b, encArg |-> b, closes |-> 0]

\* Write with payload b, codec outcome encOk and socket outcome so: what it
\* returns, what it gave the codec and what it handed to the socket.
WriteCall(k, b, encOk, so) ==
    LET e == EncryptCall(k, b, encOk)
    IN  IF ~e.ok
        THEN [n |-> 0, err |-> "encrypt", sockWrites |-> 0, sockData |-> <<>>,
              encArg |-> b, closes |-> 0]
        ELSE [n |-> IF so = "none" THEN Len(e.out) ELSE 0, err |-> so,
              sockWrites |-> 1, sockData |-> e.out, encArg |-> b,
              closes |-> 0]

\* func (c *TCPConn) Write(b []byte) (n int, err error)
Write(c, b, encOk, so) ==
    LET r == WriteCall(crypt, b, encOk, so)
        sent == r.sockWrites > 0 /\ so = "none"
    IN  /\ Len(written[1]) + Len(written[2]) < MaxWrites
        /\ wire' = IF sent /\ ~closed[Peer(c)]
                   THEN [wire EXCEPT ![Peer(c)] = @ \o r.sockData]
                   ELSE wire
        /\ written' = IF sent THEN [written EXCEPT ![c] = @ \o <<b>>]
                      ELSE written
        /\ closed' = [closed EXCEPT ![c] = @ \/ r.closes > 0]
        /\ last' = [NoCall EXCEPT !.op = "Write", !.conn = c, !.payload = b,
                       !.n = r.n, !.err = r.err, !.sockWrites = r.sockWrites,
                       !.sockData = r.sockData, !.encCalls = 1,
                       !.encArg = r.encArg, !.encOk = encOk,
                       !.sockErr = IF r.sockWrites > 0 THEN so ELSE "none",
                       !.closes = r.closes]
        /\ UNCHANGED <<call, hist, srv, race>>
        /\ UNCHANGED <<crypt, now, rdl, wdl, buffer, destick, stash, stashId,
                       delivered>>

\* func (c *TCPConn) Close() error
Close(c) ==
    /\ closed' = [closed EXCEPT ![c] = TRUE]
    /\ last' = [NoCall EXCEPT !.op = "Close", !.conn = c, !.closes = 1,
                   !.err = IF closed[c] THEN "closed" ELSE "none"]
    /\ UNCHANGED <<call, hist, srv, race>>
    /\ UNCHANGED <<crypt, now, wire, rdl, wdl, buffer, destick, stash,
                   stashId, written, delivered>>

\* func (c *TCPConn) SetDeadline(t time.Time) error
SetDeadline(c, t) ==
    /\ rdl' = IF closed[c] THEN rdl ELSE [rdl EXCEPT ![c] = t]
    /\ wdl' = IF closed[c] THEN wdl ELSE [wdl EXCEPT ![c] = t]
    /\ last' = NoCall
    /\ UNCHANGED <<call, hist, srv, race>>
    /\ UNCHANGED <<crypt, now, closed, wire, buffer, destick, stash, stashId,
                   written, delivered>>

\* func (c *TCPConn) SetReadDeadline(t time.Time) error
SetReadDeadline(c, t) ==
    /\ rdl' = IF closed[c] THEN rdl ELSE [rdl EXCEPT ![c] = t]
    /\ last' = NoCall
    /\ UNCHANGED <<call, hist, srv, race>>
    /\ UNCHANGED <<crypt, now, closed, wire, wdl, buffer, destick, stash,
                   stashId, written, delivered>>

\* func (c *TCPConn) SetWriteDeadline(t time.Time) error
SetWriteDeadline(c, t) ==
    /\ wdl' = IF closed[c] THEN wdl ELSE [wdl EXCEPT ![c] = t]
    /\ last' = NoCall
    /\ UNCHANGED <<call, hist, srv, race>>
    /\ UNCHANGED <<crypt, now, closed, wire, rdl, buffer, destick, stash,
                   stashId, written, delivered>>

\* Time passes.
Tick ==
    /\ now < MaxClock
    /\ now' = now + TickStep
    /\ last' = NoCall
    /\ UNCHANGED <<call, hist, srv, race>>
    /\ UNCHANGED <<crypt, closed, wire, rdl, wdl, buffer, destick, stash,
                   stashId, written, delivered>>

\* ---------------------------------------------------------------- addresses
\* Package addr: texts are strings, Go's s[i] is At(s, i + 1) and s[i:] is
\* From(s, i + 1).  IP addresses are byte sequences (net.IP), nil or not.
At(s, i) == SubSeq(s, i, i)
From(s, i) == SubSeq(s, i, Len(s))

HexLower == "0123456789abcdef"
HexUpper == "0123456789ABCDEF"
IsDigit(ch) == \E i \in 1..10 : At(HexLower, i) = ch
IsHex(ch) == \E i \in 1..16 : At(HexLower, i) = ch \/ At(HexUpper, i) = ch
HexVal(ch) ==
    (CHOOSE i \in 1..16 : At(HexLower, i) = ch \/ At(HexUpper, i) = ch) - 1

\* bytealg.IndexByteString / LastIndexByteString, counting from 1 (0: none).
IndexByte(s, ch) ==
    IF \E i \in 1..Len(s) : At(s, i) = ch
    THEN CHOOSE i \in 1..Len(s) :
             At(s, i) = ch /\ \A j \in 1..(i - 1) : At(s, j) # ch
    ELSE 0
LastIndexByte(s, ch) ==
    IF \E i \in 1..Len(s) : At(s, i) = ch
    THEN CHOOSE i \in 1..Len(s) :
             At(s, i) = ch /\ \A j \in (i + 1)..Len(s) : At(s, j) # ch
    ELSE 0

\* strconv.ParseUint(s, 10, 16), digit by digit: the first character that
\* is no digit is a syntax error, the first prefix above 65535 a range error.
RECURSIVE UintScan(_, _, _)
UintScan(s, i, acc) ==
    IF i > Len(s) THEN [ok |-> TRUE, val |-> acc]
    ELSE IF ~IsDigit(At(s, i)) THEN [ok |-> FALSE, val |-> 0]
    ELSE LET a == acc * 10 + HexVal(At(s, i))
         IN  IF a > 65535 THEN [ok |-> FALSE, val |-> 0]
             ELSE UintScan(s, i + 1, a)
ParseUint(s) ==
    IF s = "" THEN [ok |-> FALSE, val |-> 0] ELSE UintScan(s, 1, 0)

\* net.SplitHostPort: the port follows the last colon; a host in brackets
\* ends at the ']' just before that colon; no other colon, '[' or ']'.
SplitHostPort(s) ==
    LET i == LastIndexByte(s, ":")
        end == IndexByte(s, "]")
        bad == [ok |-> FALSE, host |-> "", port |-> ""]
        bracket == At(s, 1) = "["
        host == IF bracket THEN SubSeq(s, 2, end - 1) ELSE SubSeq(s, 1, i - 1)
        j == IF bracket THEN 2 ELSE 1
        k == IF bracket THEN end + 1 ELSE 1
    IN  IF i = 0 THEN bad
        ELSE IF bracket /\ (end = 0 \/ end + 1 # i) THEN bad
        ELSE IF ~bracket /\ IndexByte(host, ":") > 0 THEN bad
        ELSE IF IndexByte(From(s, j), "[") > 0 THEN bad
        ELSE IF IndexByte(From(s, k), "]") > 0 THEN bad
        ELSE [ok |-> TRUE, host |-> host, port |-> From(s, i + 1)]

\* The four decimal fields of a dotted IPv4 text (netip.parseIPv4Fields):
\* one to three digits each, at most 255, no leading zero.
RECURSIVE V4Scan(_, _, _, _, _)
V4Scan(s, i, val, digLen, fields) ==
    IF i > Len(s)
    THEN IF Len(fields) < 3 THEN [ok |-> FALSE, b |-> <<>>]
         ELSE [ok |-> TRUE, b |-> fields \o <<val>>]
    ELSE IF IsDigit(At(s, i))
    THEN IF digLen = 1 /\ val = 0 THEN [ok |-> FALSE, b |-> <<>>]
         ELSE LET v == val * 10 + HexVal(At(s, i))
              IN  IF v > 255 THEN [ok |-> FALSE, b |-> <<>>]
                  ELSE V4Scan(s, i + 1, v, digLen + 1, fields)
    ELSE IF At(s, i) = "."
    THEN IF i = 1 \/ i = Len(s) \/ At(s, i - 1) = "." \/ Len(fields) = 3
         THEN [ok |-> FALSE, b |-> <<>>]
         ELSE V4Scan(s, i + 1, 0, 0, fields \o <<val>>)
    ELSE [ok |-> FALSE, b |-> <<>>]
ParseIPv4Fields(s) == V4Scan(s, 1, 0, 0, <<>>)

\* The leading hex digits of s: how many (off) and their value (acc); at
\* most four digits make a group.
RECURSIVE HexRun(_, _, _)
HexRun(s, off, acc) ==
    IF off < Len(s) /\ IsHex(At(s, off + 1))
    THEN IF off + 1 > 4 THEN [ok |-> FALSE, off |-> off, acc |-> acc]
         ELSE HexRun(s, off + 1, acc * 16 + HexVal(At(s, off + 1)))
    ELSE [ok |-> TRUE, off |-> off, acc |-> acc]

\* The groups of an IPv6 text after a leading "::" was taken off
\* (netip.parseIPv6's loop): ip is what was parsed so far, ellipsis the place
\* of "::" in it (-1: none yet), rest what the loop left unread.
RECURSIVE V6Groups(_, _, _)
V6Groups(s, ip, ellipsis) ==
    LET bad == [ok |-> FALSE, ip |-> ip, ellipsis |-> ellipsis, rest |-> s]
        h == HexRun(s, 0, 0)
        f == ParseIPv4Fields(s)
        ip2 == ip \o <<h.acc \div 256, h.acc % 256>>
        s2 == From(s, h.off + 1)
        s3 == From(s2, 2)
        s4 == From(s3, 2)
    IN  IF Len(ip) >= 16
        THEN [ok |-> TRUE, ip |-> ip, ellipsis |-> ellipsis, rest |-> s]
        ELSE IF ~h.ok \/ h.off = 0 THEN bad
        ELSE IF h.off < Len(s) /\ At(s, h.off + 1) = "."
        THEN IF (ellipsis < 0 /\ Len(ip) # 12) \/ Len(ip) + 4 > 16 \/ ~f.ok
             THEN bad
             ELSE [ok |-> TRUE, ip |-> ip \o f.b, ellipsis |-> ellipsis,
                   rest |-> ""]
        ELSE IF s2 = ""
        THEN [ok |-> TRUE, ip |-> ip2, ellipsis |-> ellipsis, rest |-> ""]
        ELSE IF At(s2, 1) # ":" \/ Len(s2) = 1 THEN bad
        ELSE IF At(s3, 1) = ":"
        THEN IF ellipsis >= 0 THEN bad
             ELSE IF s4 = ""
             THEN [ok |-> TRUE, ip |-> ip2, ellipsis |-> Len(ip2),
                   rest |-> ""]
             ELSE V6Groups(s4, ip2, Len(ip2))
        ELSE V6Groups(s3, ip2, ellipsis)

Zeros(n) == [i \in 1..n |-> 0]

\* netip.parseIPv6 without a zone: the 16 bytes, "::" expanded to the zero
\* groups it stands for (at least one).
ParseIPv6(s) ==
    LET lead == Len(s) >= 2 /\ SubSeq(s, 1, 2) = "::"
        g == V6Groups(IF lead THEN From(s, 3) ELSE s, <<>>,
                      IF lead THEN 0 ELSE -1)
        bad == [ok |-> FALSE, b |-> <<>>]
    IN  IF lead /\ Len(s) = 2 THEN [ok |-> TRUE, b |-> Zeros(16)]
        ELSE IF ~g.ok \/ g.rest # "" THEN bad
        ELSE IF Len(g.ip) < 16
        THEN IF g.ellipsis < 0 THEN bad
             ELSE [ok |-> TRUE,
                   b |-> SubSeq(g.ip, 1, g.ellipsis)
                         \o Zeros(16 - Len(g.ip))
                         \o SubSeq(g.ip, g.ellipsis + 1, Len(g.ip))]
        ELSE IF g.ellipsis >= 0 THEN bad
        ELSE [ok |-> TRUE, b |-> g.ip]

\* A net.IP: nil, or the byte slice b.
NilIP == [nil |-> TRUE, b |-> <<>>]
IP(b) == [nil |-> FALSE, b |-> b]

\* ::ffff:a.b.c.d, the 16-byte form of an IPv4 address.
v4InV6Prefix == Zeros(10) \o <<255, 255>>

\* net.ParseIP: the first '.', ':' or '%' decides the family; the result is
\* the address in 16 bytes or nil.  A text with a zone is no IP.
ParseIP(s) ==
    LET first == CHOOSE i \in 1..Len(s) :
                     /\ At(s, i) \in {".", ":", "%"}
                     /\ \A j \in 1..(i - 1) : At(s, j) \notin {".", ":", "%"}
        v4 == ParseIPv4Fields(s)
        v6 == ParseIPv6(s)
    IN  IF \A i \in 1..Len(s) : At(s, i) \notin {".", ":", "%"} THEN NilIP
        ELSE IF IndexByte(s, "%") > 0 THEN NilIP
        ELSE IF At(s, first) = "."
        THEN IF v4.ok THEN IP(v4InV6Prefix \o v4.b) ELSE NilIP
        ELSE IF v6.ok THEN IP(v6.b) ELSE NilIP

\* func (ip IP) To4() IP: the 4 bytes of an IPv4 address held in 4 bytes or
\* as ::ffff:a.b.c.d in 16, else nil.
To4(ip) ==
    IF Len(ip.b) = 4 THEN ip
    ELSE IF Len(ip.b) = 16 /\ SubSeq(ip.b, 1, 12) = v4InV6Prefix
    THEN IP(SubSeq(ip.b, 13, 16))
    ELSE NilIP

\* strconv's decimal text of n >= 0 (fmt's %d).
RECURSIVE DecStr(_)
DecStr(n) ==
    IF n < 10 THEN At(HexLower, n + 1)
    ELSE DecStr(n \div 10) \o At(HexLower, (n % 10) + 1)

\* ip.String() of an IPv4-capable address, p4 its four bytes.
Dotted(p4) ==
    DecStr(p4[1]) \o "." \o DecStr(p4[2]) \o "." \o DecStr(p4[3]) \o "."
        \o DecStr(p4[4])

\* hex.Encode: two lowercase hex digits per byte.
RECURSIVE HexEncode(_)
HexEncode(b) ==
    IF b = <<>> THEN ""
    ELSE At(HexLower, (Head(b) \div 16) + 1)
             \o At(HexLower, (Head(b) % 16) + 1) \o HexEncode(Tail(b))

\* What a call gives: a value, an error naming arg, or a run-time panic.
Ok(v) == [kind |-> "ok", val |-> v]
Err(msg, arg) == [kind |-> "error", msg |-> msg, arg |-> arg]
Panic == [kind |-> "panic"]

\* func fullString(ip net.IP) string.  dst[0:4] ... dst[24:28], dst[28:]
\* slice the hex text whatever its length: out of range below 28 characters.
fullString(ip) ==
    LET dst == HexEncode(ip.b)
    IN  IF ~To4(ip).nil THEN Ok(Dotted(To4(ip).b))
        ELSE IF Len(dst) < 28 THEN Panic
        ELSE Ok(SubSeq(dst, 1, 4) \o ":" \o SubSeq(dst, 5, 8) \o ":"
                \o SubSeq(dst, 9, 12) \o ":" \o SubSeq(dst, 13, 16) \o ":"
                \o SubSeq(dst, 17, 20) \o ":" \o SubSeq(dst, 21, 24) \o ":"
                \o SubSeq(dst, 25, 28) \o ":" \o From(dst, 29))

\* The net.Addr kinds.
IPAddr(ip) == [kind |-> "IPAddr", ip |-> ip]
TCPAddr(ip, port) == [kind |-> "TCPAddr", ip |-> ip, port |-> port]
ICMPQueryAddr(ip, id) == [kind |-> "ICMPQueryAddr", ip |-> ip, id |-> id]
MultiIPAddr(ips) == [kind |-> "MultiIPAddr", IPs |-> ips]

\* return "", fmt.Errorf("type %T not support", t)
Unsupported(addr) ==
    [kind |-> "error", val |-> "", msg |-> "type not support",
     arg |-> addr.kind]

\* Mutant: a TCP endpoint with an IP is filtered by its host alone.
bpfFilterHostOnly(prefix, addr) ==
    IF addr.kind = "IPAddr" \/ (addr.kind = "TCPAddr" /\ ~addr.ip.nil)
    THEN IF fullString(addr.ip).kind = "panic" THEN Panic
         ELSE Ok("(" \o prefix \o " host " \o fullString(addr.ip).val \o ")")
    ELSE IF addr.kind = "TCPAddr"
    THEN Ok("(" \o prefix \o " port " \o DecStr(addr.port) \o ")")
    ELSE Unsupported(addr)

\* func bpfFilter(prefix string, addr net.Addr) (string, error)
bpfFilter(prefix, addr) ==
    IF addr.kind = "IPAddr"
    THEN IF fullString(addr.ip).kind = "panic" THEN Panic
         ELSE Ok("(" \o prefix \o " host " \o fullString(addr.ip).val \o ")")
    ELSE IF addr.kind = "TCPAddr"
    THEN IF addr.ip.nil
         THEN Ok("(" \o prefix \o " port " \o DecStr(addr.port) \o ")")
         ELSE IF fullString(addr.ip).kind = "panic" THEN Panic
         ELSE Ok("(" \o prefix \o " host " \o fullString(addr.ip).val
                 \o " && " \o prefix \o " port " \o DecStr(addr.port) \o ")")
    ELSE Unsupported(addr)

SrcBPFFilter(addr) == bpfFilter("src", addr)
DstBPFFilter(addr) == bpfFilter("dst", addr)

\* func ParseTCPAddr(s string) (*net.TCPAddr, error)
ParseTCPAddr(s) ==
    LET hp == SplitHostPort(s)
        ip == ParseIP(hp.host)
        port == ParseUint(hp.port)
    IN  IF ~hp.ok THEN Err("split host port", s)
        ELSE IF ip.nil THEN Err("invalid ip", hp.host)
        ELSE IF ~port.ok THEN Err("parse port", hp.port)
        ELSE Ok(TCPAddr(ip, port.val))

\* func ParseAddr(s string) (net.Addr, error).  s[0] of the empty text is
\* an index out of range.
ParseAddr(s) ==
    LET port == ParseUint(From(s, 2))
        addr == ParseTCPAddr(s)
        ip == ParseIP(s)
    IN  IF Len(s) = 0 THEN Panic
        ELSE IF At(s, 1) = ":"
        THEN IF ~port.ok THEN Err("parse port", From(s, 2))
             ELSE Ok(TCPAddr(NilIP, port.val))
        ELSE IF addr.kind = "error"
        THEN IF ip.nil THEN Err("invalid ip", s) ELSE Ok(IPAddr(ip))
        ELSE addr

\* The entries of ips from the i-th on, in order, up to the first that is
\* IPv4-capable (v4 = TRUE) or is not (v4 = FALSE): for _, ip := range
RECURSIVE FirstOfFamily(_, _, _)
FirstOfFamily(ips, i, v4) ==
    IF i > Len(ips) THEN NilIP
    ELSE IF To4(ips[i]).nil # v4 THEN ips[i]
    ELSE FirstOfFamily(ips, i + 1, v4)

\* Mutant: the first entry, of whichever family.
IPv4Any(addr) == IF Len(addr.IPs) > 0 THEN addr.IPs[1] ELSE NilIP
\* func (addr *MultiIPAddr) IPv4() net.IP
IPv4(addr) == FirstOfFamily(addr.IPs, 1, TRUE)
\* func (addr *MultiIPAddr) IPv6() net.IP
IPv6(addr) == FirstOfFamily(addr.IPs, 1, FALSE)

\* Texts are up to MaxLexemes pieces put together, the pieces chosen so
\* that every grammar of ParseAddr and its near misses occur.
Lexemes == {"", ":", "80", "70000", "1.2.3.4", "::1", "[::1]", "[", "]", "x"}
RECURSIVE TextsOf(_)
TextsOf(n) ==
    IF n = 0 THEN {""}
    ELSE {a \o b : a \in TextsOf(n - 1), b \in Lexemes}
Texts == TextsOf(MaxLexemes)

\* IP values: nil, empty, IPv4 in 4 and in 16 bytes, IPv6, and slices of
\* other lengths (net.IP is a byte slice of any length).
WellFormedIPs ==
    {IP(<<10, 0, 0, 1>>), IP(v4InV6Prefix \o <<10, 0, 0, 1>>),
     IP(Zeros(15) \o <<1>>), IP(<<32, 1, 13, 184>> \o Zeros(11) \o <<1>>)}
IPValues ==
    WellFormedIPs \cup {NilIP, IP(<<>>), IP(Zeros(5)), IP(Zeros(14)),
                        IP(Zeros(17))}
Ports == {0, 53, 65535}
RECURSIVE IPSeqs(_)
IPSeqs(n) ==
    IF n = 0 THEN {<<>>}
    ELSE IPSeqs(n - 1)
         \cup {Append(s, ip) : s \in {t \in IPSeqs(n - 1) : Len(t) = n - 1},
                               ip \in WellFormedIPs}
Endpoints ==
    {IPAddr(ip) : ip \in IPValues}
    \cup {TCPAddr(ip, p) : ip \in IPValues, p \in Ports}
    \cup {ICMPQueryAddr(ip, 7) : ip \in WellFormedIPs}
    \cup {MultiIPAddr(ips) : ips \in IPSeqs(MaxIPs)}

\* The latest call of a function of package addr: its argument and what it
\* gave.  op = "none": the argument is chosen, the call not yet made.
NoRet == [kind |-> "none"]
NoAddrCall == [op |-> "none", arg |-> [kind |-> "none"], ret |-> NoRet]
AddrInputs ==
    {[kind |-> "text", text |-> s] : s \in Texts}
    \cup {[kind |-> "ip", ip |-> ip] : ip \in IPValues}
    \cup Endpoints

Pending(kinds) == call.op = "none" /\ call.arg.kind \in kinds
EndpointKinds == {"IPAddr", "TCPAddr", "ICMPQueryAddr", "MultiIPAddr"}

CallParseAddr ==
    /\ Pending({"text"})
    /\ call' = [call EXCEPT !.op = "ParseAddr",
                            !.ret = ParseAddr(call.arg.text)]
    /\ UNCHANGED <<connVars, hist, srv, race>>

CallParseTCPAddr ==
    /\ Pending({"text"})
    /\ call' = [call EXCEPT !.op = "ParseTCPAddr",
                            !.ret = ParseTCPAddr(call.arg.text)]
    /\ UNCHANGED <<connVars, hist, srv, race>>

CallFullString ==
    /\ Pending({"ip"})
    /\ call' = [call EXCEPT !.op = "fullString",
                            !.ret = fullString(call.arg.ip)]
    /\ UNCHANGED <<connVars, hist, srv, race>>

CallSrcBPFFilter ==
    /\ Pending(EndpointKinds)
    /\ call' = [call EXCEPT !.op = "SrcBPFFilter",
                            !.ret = SrcBPFFilter(call.arg)]
    /\ UNCHANGED <<connVars, hist, srv, race>>

CallDstBPFFilter ==
    /\ Pending(EndpointKinds)
    /\ call' = [call EXCEPT !.op = "DstBPFFilter",
                            !.ret = DstBPFFilter(call.arg)]
    /\ UNCHANGED <<connVars, hist, srv, race>>

\* addr.IPv4() and addr.IPv6(): the entry returned and the receiver after.
CallIPv4 ==
    /\ Pending({"MultiIPAddr"})
    /\ call' = [call EXCEPT !.op = "IPv4",
                            !.ret = [kind |-> "ip", ip |-> IPv4(call.arg),
                                     IPs |-> call.arg.IPs]]
    /\ UNCHANGED <<connVars, hist, srv, race>>

CallIPv6 ==
    /\ Pending({"MultiIPAddr"})
    /\ call' = [call EXCEPT !.op = "IPv6",
                            !.ret = [kind |-> "ip", ip |-> IPv6(call.arg),
                                     IPs |-> call.arg.IPs]]
    /\ UNCHANGED <<connVars, hist, srv, race>>

\* newTCPConn(): buffer, destick and stash of a fresh connection.
newTCPConn == [buffer |-> <<>>, destick |-> NewDesticker, stash |-> <<>>,
               stashId |-> 0]

\* ------------------------------------------------ listener and connections
\* A TCPListener and the connections made from it by Accept and, with the
\* same codec, by DialTCP.  Objects are held by reference: socks, buffers
\* and desticks are the heap, and a TCPConn holds places in them (conn,
\* buffer, destick), its codec reference and, by value, stash and cursor.
\* sent counts what the remote ends have sent; last is the connection the
\* latest operation was called on or made.
NoSrv(k) ==
    [crypt |-> k, conns |-> <<>>, socks |-> <<>>, buffers |-> <<>>,
     desticks |-> <<>>, sent |-> 0, last |-> 0]

\* ------------------------------------------- one Read racing one Write
\* One Read call and one Write call in progress on the same connection, each
\* at a place in its code (rpc, wpc).  c is the connection: its receive state,
\* the bytes in flight towards it (wire), what its socket has been given
\* (out).  arg holds the arguments and what the socket answers; c0 is c as
\* it was when both calls began; n, dp, packets are Read's local variables
\* and contents is Write's.
NoRet3 == [n |-> 0, err |-> "none", data |-> <<>>]
NoRet2 == [n |-> 0, err |-> "none"]
RaceOf(c, arg) ==
    [arg |-> arg, c0 |-> c, c |-> c, rpc |-> "check", wpc |-> "encrypt",
     n |-> 0, dp |-> <<>>, packets |-> <<>>, contents |-> <<>>,
     rret |-> NoRet3, wret |-> NoRet2]
NoRace ==
    [RaceOf([buffer |-> <<>>, destick |-> NewDesticker, stash |-> <<>>,
             stashId |-> 0, wire |-> <<>>, out |-> <<>>],
            [b |-> <<>>, blen |-> 0, encOk |-> TRUE, wso |-> "none",
             rso |-> [err |-> "none", n |-> 0]])
     EXCEPT !.rpc = "done", !.wpc = "done"]

\* Both ends of an established connection (DialTCP on one side, Accept on
\* the other), each built by newTCPConn and given the same codec.
ConnInit ==
    /\ crypt \in Crypts
    /\ now = 0
    /\ closed = [c \in Conns |-> FALSE]
    /\ wire = [c \in Conns |-> <<>>]
    /\ rdl = [c \in Conns |-> 0]
    /\ wdl = [c \in Conns |-> 0]
    /\ buffer = [c \in Conns |-> newTCPConn.buffer]
    /\ destick = [c \in Conns |-> newTCPConn.destick]
    /\ stash = [c \in Conns |-> newTCPConn.stash]
    /\ stashId = [c \in Conns |-> newTCPConn.stashId]
    /\ written = [c \in Conns |-> <<>>]
    /\ delivered = [c \in Conns |-> 0]
    /\ last = NoCall

Init ==
    /\ ConnInit /\ call = NoAddrCall /\ hist = NoHist(FALSE)
    /\ srv = NoSrv(crypt) /\ race = NoRace

\* A Read call that returns: from the stash, or with what the socket gives.
ReadStep ==
    \E c \in Local, blen \in BufLens :
        IF StashExhausted(stash[c], stashId[c])
        THEN \E so \in SockRead(c) : Read(c, blen, so)
        ELSE Read(c, blen, [err |-> "none", n |-> 0])

Next ==
    \/ ReadStep
    \/ \E c \in Conns, b \in Payloads, encOk \in BOOLEAN :
          \E so \in SockWrite(c) : Write(c, b, encOk, so)
    \/ \E c \in Conns : Close(c)
    \/ \E c \in Local, t \in Deadlines : SetDeadline(c, t)
    \/ \E c \in Local, t \in Deadlines : SetReadDeadline(c, t)
    \/ \E c \in Local, t \in Deadlines : SetWriteDeadline(c, t)
    \/ Tick

Spec == Init /\ [][Next]_vars

\* The caller keeps calling Read and time keeps passing.
FairSpec == Spec /\ WF_vars(ReadStep) /\ WF_vars(Tick)

\* The connected pair with the record of extracted and handed frames kept.
HistInit ==
    /\ ConnInit /\ call = NoAddrCall /\ hist = NoHist(TRUE)
    /\ srv = NoSrv(crypt) /\ race = NoRace
HistSpec == HistInit /\ [][Next]_vars

\* Mutant: every connection is given the extractor made first.
allocShared(h) ==
    [buffer |-> Len(h.buffers) + 1, destick |-> 1,
     stash |-> newTCPConn.stash, stashId |-> newTCPConn.stashId]

\* conn := &TCPConn{buffer: make(...), destick: NewDesticker(), stash:
\* make(...)}: the places of the new buffer and the new extractor.
alloc(h) ==
    [buffer |-> Len(h.buffers) + 1, destick |-> Len(h.desticks) + 1,
     stash |-> newTCPConn.stash, stashId |-> newTCPConn.stashId]

\* tcpConn := newTCPConn(); tcpConn.conn = conn; tcpConn.crypt = k, conn a
\* socket just accepted or dialled.
Wrapped(h, k) ==
    [h EXCEPT !.socks = Append(@, [closed |-> FALSE, wire |-> <<>>]),
              !.buffers = Append(@, newTCPConn.buffer),
              !.desticks = Append(@, newTCPConn.destick),
              !.conns = Append(@, [conn |-> Len(h.socks) + 1, crypt |-> k,
                                   buffer |-> alloc(h).buffer,
                                   destick |-> alloc(h).destick,
                                   stash |-> alloc(h).stash,
                                   stashId |-> alloc(h).stashId])]

\* func (l *TCPListener) Accept() (net.Conn, error)
Accept ==
    /\ Len(srv.conns) < MaxConns
    /\ srv' = [Wrapped(srv, srv.crypt) EXCEPT
                  !.last = Len(srv.conns) + 1]
    /\ UNCHANGED <<connVars, call, hist, race>>

\* func DialTCP(dev, srcPort, dstAddr, crypt) (*TCPConn, error)
DialTCP(k) ==
    /\ Len(srv.conns) < MaxConns
    /\ srv' = [Wrapped(srv, k) EXCEPT
                  !.last = Len(srv.conns) + 1]
    /\ UNCHANGED <<connVars, call, hist, race>>

\* Outcomes of net.TCPConn.Read and Write on a socket of the heap.
SockReadOf(sock) ==
    IF sock.closed THEN {[err |-> "closed", n |-> 0]}
    ELSE {[err |-> "none", n |-> n] : n \in 1..Len(sock.wire)}
SockWriteOf(sock) == IF sock.closed THEN {"closed"} ELSE {"none"}

\* Read on the i-th connection.
ConnRead(i, blen, so) ==
    LET tc == srv.conns[i]
        r == ReadCall(tc.stash, tc.stashId, srv.desticks[tc.destick],
                      srv.buffers[tc.buffer], blen, so,
                      srv.socks[tc.conn].wire, tc.crypt, now)
    IN  /\ srv' = [srv EXCEPT
                      !.conns[i].stash = r.stash,
                      !.conns[i].stashId = r.stashId,
                      !.desticks[tc.destick] = r.destick,
                      !.buffers[tc.buffer] = r.buffer,
                      !.socks[tc.conn].wire = SubSeq(@, r.taken + 1, Len(@)),
                      !.socks[tc.conn].closed = @ \/ r.closes > 0,
                      !.last = i]
        /\ UNCHANGED <<connVars, call, hist, race>>

ConnReadStep ==
    \E i \in 1..Len(srv.conns), blen \in BufLens :
        IF StashExhausted(srv.conns[i].stash, srv.conns[i].stashId)
        THEN \E so \in SockReadOf(srv.socks[srv.conns[i].conn]) :
                 ConnRead(i, blen, so)
        ELSE ConnRead(i, blen, [err |-> "none", n |-> 0])

\* Write on the i-th connection; what its socket is given goes to the remote
\* end.
ConnWrite(i, b, encOk, so) ==
    LET tc == srv.conns[i]
        r == WriteCall(tc.crypt, b, encOk, so)
    IN  /\ srv' = [srv EXCEPT
                      !.socks[tc.conn].closed = @ \/ r.closes > 0,
                      !.last = i]
        /\ UNCHANGED <<connVars, call, hist, race>>

\* Close on the i-th connection.
ConnClose(i) ==
    /\ srv' = [srv EXCEPT !.socks[srv.conns[i].conn].closed = TRUE,
                          !.last = i]
    /\ UNCHANGED <<connVars, call, hist, race>>

\* The remote end of the i-th connection writes payload b.
PeerSend(i, b) ==
    /\ srv.sent < MaxWrites
    /\ ~srv.socks[srv.conns[i].conn].closed
    /\ srv' = [srv EXCEPT
                  !.socks[srv.conns[i].conn].wire =
                      @ \o Encrypt(srv.conns[i].crypt, b),
                  !.sent = @ + 1,
                  !.last = i]
    /\ UNCHANGED <<connVars, call, hist, race>>

ListenInit ==
    /\ ConnInit /\ call = NoAddrCall /\ hist = NoHist(FALSE)
    /\ srv = NoSrv(crypt) /\ race = NoRace

ListenNext ==
    \/ Accept
    \/ DialTCP(crypt)
    \/ ConnReadStep
    \/ \E i \in 1..Len(srv.conns), b \in Payloads, encOk \in BOOLEAN :
          \E so \in SockWriteOf(srv.socks[srv.conns[i].conn]) :
              ConnWrite(i, b, encOk, so)
    \/ \E i \in 1..Len(srv.conns) : ConnClose(i)
    \/ \E i \in 1..Len(srv.conns), b \in Payloads : PeerSend(i, b)

ListenSpec == ListenInit /\ [][ListenNext]_vars

\* if c.stash == nil || len(c.stash) <= c.stashId
RCheck(x) ==
    [x EXCEPT !.rpc = IF StashExhausted(x.c.stash, x.c.stashId)
                      THEN "sockread" ELSE "copy"]

\* n, err = c.conn.Read(c.buffer); if err != nil { return 0, err }
RSockRead(x) ==
    IF SockFailed(x.arg.rso)
    THEN [x EXCEPT !.rpc = "done",
                   !.rret = [n |-> 0, err |-> x.arg.rso.err, data |-> <<>>]]
    ELSE [x EXCEPT !.rpc = "decrypt", !.n = x.arg.rso.n,
                   !.c.buffer = SubSeq(x.c.wire, 1, x.arg.rso.n),
                   !.c.wire = SubSeq(@, x.arg.rso.n + 1, Len(@))]

\* dp, err := c.crypt.Decrypt(c.buffer[:n])
RDecrypt(x) ==
    LET d == Decrypt(crypt, SubSeq(x.c.buffer, 1, x.n))
    IN  IF ~d.ok
        THEN [x EXCEPT !.rpc = "done",
                       !.rret = [n |-> 0, err |-> "decrypt", data |-> <<>>]]
        ELSE [x EXCEPT !.rpc = "append", !.dp = d.out]

\* packets, err := c.destick.Append(dp)
RAppend(x) ==
    LET a == DestickAppend(x.c.destick, x.dp, now)
    IN  IF ~a.ok
        THEN [x EXCEPT !.rpc = "done", !.c.destick = a.d,
                       !.rret = [n |-> 0, err |-> "destick", data |-> <<>>]]
        ELSE [x EXCEPT !.rpc = "store", !.c.destick = a.d,
                       !.packets = a.packets]

\* if len(packets) == 0 { return 0, nil }; c.stash = packets; c.stashId = 0
RStore(x) ==
    IF Len(x.packets) = 0
    THEN [x EXCEPT !.rpc = "done", !.rret = NoRet3]
    ELSE [x EXCEPT !.rpc = "copy", !.c.stash = x.packets, !.c.stashId = 0]

\* copy(b, c.stash[c.stashId]); c.stashId++; return len(...), nil
RCopy(x) ==
    LET r == Deliver(x.c.stash, x.c.stashId, x.arg.blen)
    IN  [x EXCEPT !.rpc = "done", !.c.stashId = r.stashId,
                  !.rret = [n |-> r.n, err |-> "none", data |-> r.data]]

\* Mutant: Write encrypts in the connection's scratch buffer.
WEncryptInBuffer(x) ==
    LET e == EncryptCall(crypt, x.arg.b, x.arg.encOk)
    IN  IF ~e.ok
        THEN [x EXCEPT !.wpc = "done", !.c.buffer = x.arg.b,
                       !.wret = [n |-> 0, err |-> "encrypt"]]
        ELSE [x EXCEPT !.wpc = "sockwrite", !.c.buffer = e.out,
                       !.contents = e.out]

\* contents, err := c.crypt.Encrypt(b)
WEncrypt(x) ==
    LET e == EncryptCall(crypt, x.arg.b, x.arg.encOk)
    IN  IF ~e.ok
        THEN [x EXCEPT !.wpc = "done", !.wret = [n |-> 0, err |-> "encrypt"]]
        ELSE [x EXCEPT !.wpc = "sockwrite", !.contents = e.out]

\* return c.conn.Write(contents)
WSockWrite(x) ==
    IF x.arg.wso = "none"
    THEN [x EXCEPT !.wpc = "done", !.c.out = @ \o x.contents,
                   !.wret = [n |-> Len(x.contents), err |-> "none"]]
    ELSE [x EXCEPT !.wpc = "done", !.wret = [n |-> 0, err |-> x.arg.wso]]

\* A step of the Read in progress, and of the Write in progress.
ReadAt(pc, step(_)) ==
    /\ race.rpc = pc
    /\ race' = step(race)
    /\ UNCHANGED <<connVars, call, hist, srv>>
WriteAt(pc, step(_)) ==
    /\ race.wpc = pc
    /\ race' = step(race)
    /\ UNCHANGED <<connVars, call, hist, srv>>

ReadChecks == ReadAt("check", RCheck)
ReadReadsSocket == ReadAt("sockread", RSockRead)
ReadDecrypts == ReadAt("decrypt", RDecrypt)
ReadAppends == ReadAt("append", RAppend)
ReadStores == ReadAt("store", RStore)
ReadCopies == ReadAt("copy", RCopy)
WriteEncrypts == WriteAt("encrypt", WEncrypt)
WriteWritesSocket == WriteAt("sockwrite", WSockWrite)

\* The connection when the two calls begin: new, with part of a frame in the
\* extractor, or with a stash of one or two frames and the cursor at 1.
RaceStarts ==
    {[buffer |-> <<>>, destick |-> d, stash |-> st[1], stashId |-> st[2],
      wire |-> w, out |-> <<>>] :
        d \in {NewDesticker, [NewDesticker EXCEPT !.buf = <<1>>]},
        st \in {<<<<>>, 0>>, <<<<<<1, 0>>, <<1, 1>>>>, 1>>,
                <<<<<<1, 0>>>>, 1>>},
        w \in {Encrypt(crypt, p) : p \in Payloads}
              \cup {Encrypt(crypt, p) \o Encrypt(crypt, q) :
                        p \in Payloads, q \in Payloads}}

\* The arguments of the two calls and what the socket answers each.
RaceArgs(c) ==
    {[b |-> b, blen |-> blen, encOk |-> encOk, wso |-> wso, rso |-> rso] :
        b \in Payloads, blen \in BufLens, encOk \in BOOLEAN,
        wso \in {"none", "closed"},
        rso \in {[err |-> "EOF", n |-> 0]}
                \cup {[err |-> "none", n |-> n] : n \in 1..Len(c.wire)}}

RaceInit ==
    /\ ConnInit /\ call = NoAddrCall /\ hist = NoHist(FALSE)
    /\ srv = NoSrv(crypt)
    /\ race \in UNION {{RaceOf(c, arg) : arg \in RaceArgs(c)} :
                        c \in RaceStarts}

RaceNext ==
    \/ ReadChecks
    \/ ReadReadsSocket
    \/ ReadDecrypts
    \/ ReadAppends
    \/ ReadStores
    \/ ReadCopies
    \/ WriteEncrypts
    \/ WriteWritesSocket

RaceSpec == RaceInit /\ [][RaceNext]_vars

\* The functions of package addr, each applied once to an argument.
AddrInit ==
    /\ ConnInit
    /\ call \in {[NoAddrCall EXCEPT !.arg = a] : a \in AddrInputs}
    /\ hist = NoHist(FALSE)
    /\ srv = NoSrv(crypt)
    /\ race = NoRace

AddrNext ==
    \/ CallParseAddr
    \/ CallParseTCPAddr
    \/ CallFullString
    \/ CallSrcBPFFilter
    \/ CallDstBPFFilter
    \/ CallIPv4
    \/ CallIPv6

AddrSpec == AddrInit /\ [][AddrNext]_vars

\* ------------------------------------------------------------------ claims
\* Every payload the peer of c has written is one whole frame.
WholeFrames(c) ==
    \A i \in 1..Len(written[Peer(c)]) : IsFrame(written[Peer(c)][i])

\* C1: over a connected pair, the payloads P1..Pn written by the sender come
\* back from the receiver's Reads in order, one whole payload per delivering
\* Read and no Read failing on bytes the socket delivered, however the socket
\* batches or splits the bytes (the payloads being whole frames and the
\* destination large enough).
C1_WritesReadBack ==
    \A c \in Conns :
        (/\ last.op = "Read" /\ last.conn = c
         /\ last.sockErr = "none"
         /\ last.blen >= 2
         /\ WholeFrames(c))
        => /\ last.err = "none"
           /\ last.n > 0 =>
                 /\ delivered[c] <= Len(written[Peer(c)])
                 /\ last.data = written[Peer(c)][delivered[c]]

\* C2: the cursor stays within 0 .. len(stash), and a Read called with the
\* cursor at len(stash) performs a socket read.
C2_CursorInStash ==
    /\ \A c \in Conns : stashId[c] >= 0 /\ stashId[c] <= Len(stash[c])
    /\ (last.op = "Read" /\ last.awaiting) => last.sockReads = 1

C2_Witness ==
    /\ last.op = "Read" /\ last.awaiting /\ last.err # "none"
    /\ last.sockReads = 1
    /\ Len(stash[last.conn]) > 0
    /\ stashId[last.conn] = Len(stash[last.conn])

\* C3: a Read that returns no error returns the number of bytes it copied,
\* which is at most the length of the destination.
C3_TruncatedCount ==
    (last.op = "Read" /\ last.err = "none")
    => last.n <= last.blen /\ last.n = Len(last.data)

\* The peer has left a partial frame in the extractor of c and sends no more.
PartialStalled(c) ==
    /\ destick[c].buf # <<>>
    /\ wire[c] = <<>>
    /\ Len(written[1]) + Len(written[2]) = MaxWrites

C5_IncompleteFrame ==
    [][(/\ last'.op = "Read" /\ last'.awaiting /\ last'.got > 0
        /\ last'.appCalls = 1 /\ last'.err # "destick" /\ last'.packets = 0)
       => /\ last'.n = 0 /\ last'.err = "none" /\ last'.data = <<>>
          /\ stash' = stash /\ stashId' = stashId
          /\ stashId'[last'.conn] = Len(stash'[last'.conn])
          /\ StashExhausted(stash'[last'.conn], stashId'[last'.conn])]_vars

C5_Witness ==
    /\ last.op = "Read" /\ last.awaiting /\ last.got > 0
    /\ last.appCalls = 1 /\ last.packets = 0 /\ last.err = "none"
    /\ destick[last.conn].buf # <<>>
    /\ Len(stash[last.conn]) > 0

\* C6: a successful Write encrypts the whole payload in one codec call and
\* makes exactly one socket write, of that ciphertext; when Encrypt fails,
\* Write returns the "encrypt" error with n = 0 and writes nothing.
C6_OneFramePerWrite ==
    last.op = "Write"
    => /\ last.encCalls = 1 /\ last.encArg = last.payload
       /\ last.err = "none" =>
             /\ last.sockWrites = 1
             /\ last.sockData = Encrypt(crypt, last.payload)
       /\ ~last.encOk =>
             /\ last.err = "encrypt" /\ last.n = 0
             /\ last.sockWrites = 0 /\ last.sockData = <<>>

C6_Witness ==
    /\ last.op = "Write" /\ last.err = "none" /\ last.sockWrites = 1
    /\ last.payload = <<1, 0>>
    /\ wire[Peer(last.conn)] # <<>>

\* C7: in Awaiting-Data a socket read that returns zero bytes or an error
\* makes Read return n = 0 with the socket's own error, with no Decrypt and
\* no Append call, and with stash, cursor and extractor as they were.
C7_SocketErrorVerbatim ==
    [][(/\ last'.op = "Read" /\ last'.awaiting
        /\ (last'.got = 0 \/ last'.sockErr # "none"))
       => /\ last'.n = 0 /\ last'.data = <<>>
          /\ last'.err \in SockErrors /\ last'.err = last'.sockErr
          /\ last'.decCalls = 0 /\ last'.appCalls = 0
          /\ stash' = stash /\ stashId' = stashId /\ destick' = destick]_vars

C7_Witness ==
    /\ last.op = "Read" /\ last.awaiting /\ last.sockErr = "EOF"
    /\ last.err = "EOF"
    /\ destick[last.conn].buf # <<>>

\* C8: when Decrypt fails on the bytes of a socket read, Read returns the
\* "decrypt" error with n = 0 and no data, feeds nothing to the extractor,
\* leaves stash and cursor as they were and does not close the socket.
C8_DecryptFailure ==
    [][(last'.op = "Read" /\ last'.decCalls = 1 /\ ~last'.decOk)
       => /\ last'.err = "decrypt" /\ last'.n = 0 /\ last'.data = <<>>
          /\ last'.appCalls = 0 /\ destick' = destick
          /\ stash' = stash /\ stashId' = stashId
          /\ closed' = closed /\ last'.closes = 0]_vars

C8_Witness ==
    /\ last.op = "Read" /\ last.decCalls = 1 /\ ~last.decOk
    /\ last.err = "decrypt" /\ last.got > 0
    /\ ~closed[last.conn]

\* C9: a Read that feeds bytes to the extractor while partial bytes have
\* been buffered for longer than keepSticky fails with the "destick" error,
\* n = 0, no data, stash and cursor as they were; a Read made while the
\* buffered bytes are not yet stale never returns the "destick" error.
C9_DestickAfterDeadline ==
    [][last'.op = "Read"
       => /\ (last'.appCalls = 1 /\ Stale(destick[last'.conn], now))
             => /\ last'.err = "destick" /\ last'.n = 0 /\ last'.data = <<>>
                /\ stash' = stash /\ stashId' = stashId
          /\ ~Stale(destick[last'.conn], now) => last'.err # "destick"]_vars

C9_Witness ==
    /\ last.op = "Read" /\ last.err = "destick" /\ last.appCalls = 1
    /\ now > keepSticky

\* C10: the socket is closed by Close alone, and a failing Read or Write
\* makes at most one socket call and one call of each collaborator: nothing
\* is retried.
C10_NoCloseNoRetry ==
    /\ [][closed' # closed => last'.op = "Close"]_vars
    /\ []((last.op \in {"Read", "Write"} /\ last.err # "none")
          => /\ last.sockReads + last.sockWrites <= 1
             /\ last.decCalls <= 1 /\ last.appCalls <= 1
             /\ last.encCalls <= 1 /\ last.closes = 0)

C10_Witness ==
    /\ last.op = "Read" /\ last.err = "decrypt"
    /\ ~closed[last.conn] /\ ~closed[Peer(last.conn)]
    /\ last.sockReads = 1

\* Texts of the three grammars of ParseAddr: ":N", "<ip>:<port>" (the IP in
\* brackets when it holds colons) and a bare IP.
IsPortText(s) == Len(s) >= 1 /\ At(s, 1) = ":" /\ ParseUint(From(s, 2)).ok
IsHostPortText(s) ==
    /\ SplitHostPort(s).ok
    /\ ~ParseIP(SplitHostPort(s).host).nil
    /\ ParseUint(SplitHostPort(s).port).ok
IsIPText(s) == ~ParseIP(s).nil

\* C11: ParseAddr maps ":N" (N an unsigned 16-bit decimal) to the TCP
\* endpoint with absent IP and port N, "<ip>:<port>" to the TCP endpoint
\* with that IP and port, and every bare valid IP of either family, those
\* that begin with ':' such as "::1" included, to the point-IP endpoint.
C11_ParseAddrGrammars ==
    call.op = "ParseAddr" =>
        LET s == call.arg.text
            hp == SplitHostPort(s)
        IN  /\ IsPortText(s) =>
                  call.ret = Ok(TCPAddr(NilIP, ParseUint(From(s, 2)).val))
            /\ IsHostPortText(s) =>
                  call.ret = Ok(TCPAddr(ParseIP(hp.host),
                                        ParseUint(hp.port).val))
            /\ IsIPText(s) => call.ret = Ok(IPAddr(ParseIP(s)))

IsSubstring(t, s) ==
    t = "" \/ \E i \in 1..Len(s) : \E j \in i..Len(s) : SubSeq(s, i, j) = t

\* C12: for every text that matches none of the three grammars, the empty
\* text included, ParseAddr returns an error that names a substring of the
\* text; it returns no endpoint and does not panic.
C12_NonGrammarIsError ==
    (/\ call.op = "ParseAddr"
     /\ ~IsPortText(call.arg.text)
     /\ ~IsHostPortText(call.arg.text)
     /\ ~IsIPText(call.arg.text))
    => /\ call.ret.kind = "error"
       /\ IsSubstring(call.ret.arg, call.arg.text)

\* The four lowercase hex digits of a 16-bit group.
Hex4(n) ==
    At(HexLower, (n \div 4096) + 1) \o At(HexLower, ((n \div 256) % 16) + 1)
        \o At(HexLower, ((n \div 16) % 16) + 1) \o At(HexLower, (n % 16) + 1)

\* The expanded text of a 4- or 16-byte IP: dotted for an IPv4-capable one,
\* else its eight 16-bit groups, each in four hex digits.
Expanded(ip) ==
    LET g(i) == Hex4(ip.b[2 * i - 1] * 256 + ip.b[2 * i])
    IN  IF ~To4(ip).nil THEN Dotted(To4(ip).b)
        ELSE g(1) \o ":" \o g(2) \o ":" \o g(3) \o ":" \o g(4) \o ":"
                 \o g(5) \o ":" \o g(6) \o ":" \o g(7) \o ":" \o g(8)

\* C13: SrcBPFFilter and DstBPFFilter are bpfFilter with direction "src" and
\* "dst"; for a point-IP endpoint with IP X it gives "(d host <expanded X>)",
\* for a TCP endpoint with absent IP and port p "(d port p)", for a TCP
\* endpoint with IP X and port p "(d host <expanded X> && d port p)", and for
\* every other kind (ICMP-query, multi-IP) an unsupported-kind error and the
\* empty string.  X is an IP address, of 4 or 16 bytes.
C13_FilterByKind ==
    call.op \in {"SrcBPFFilter", "DstBPFFilter"} =>
        LET d == IF call.op = "SrcBPFFilter" THEN "src" ELSE "dst"
            a == call.arg
        IN  /\ (a.kind = "IPAddr" /\ a.ip \in WellFormedIPs) =>
                  call.ret = Ok("(" \o d \o " host " \o Expanded(a.ip) \o ")")
            /\ (a.kind = "TCPAddr" /\ a.ip.nil) =>
                  call.ret = Ok("(" \o d \o " port " \o DecStr(a.port) \o ")")
            /\ (a.kind = "TCPAddr" /\ a.ip \in WellFormedIPs) =>
                  call.ret = Ok("(" \o d \o " host " \o Expanded(a.ip)
                                \o " && " \o d \o " port " \o DecStr(a.port)
                                \o ")")
            /\ a.kind \in {"ICMPQueryAddr", "MultiIPAddr"} =>
                  /\ call.ret.kind = "error"
                  /\ call.ret.val = ""
                  /\ call.ret.arg = a.kind

\* A TCP endpoint with an IPv6 address was compiled for the destination.
C13_Witness ==
    /\ call.op = "DstBPFFilter"
    /\ call.arg = TCPAddr(IP(<<32, 1, 13, 184>> \o Zeros(11) \o <<1>>), 53)
    /\ call.ret =
           Ok("(dst host 2001:0db8:0000:0000:0000:0000:0000:0001 && dst port 53)")

\* Eight groups of four lowercase hex digits with a colon between them.
IsEightGroups(s) ==
    /\ Len(s) = 39
    /\ \A i \in 1..39 :
           IF i % 5 = 0 THEN At(s, i) = ":"
           ELSE \E k \in 1..16 : At(HexLower, k) = At(s, i)

\* C14: fullString of an address that is not IPv4-capable (any byte
\* sequence for which To4 is absent, the absent and the empty address
\* included) is eight colon-separated groups of four lowercase hex digits.
C14_EightGroups ==
    (call.op = "fullString" /\ To4(call.arg.ip).nil)
    => /\ call.ret.kind = "ok"
       /\ IsEightGroups(call.ret.val)

\* The places of the entries of ips that are IPv4-capable (v4) or are not.
PlacesOfFamily(ips, v4) == {i \in 1..Len(ips) : To4(ips[i]).nil # v4}
Lowest(S) == CHOOSE i \in S : \A j \in S : i <= j

\* C15: IPv4() returns the first entry, in sequence order, that is
\* IPv4-capable and IPv6() the first that is not; each returns nil exactly
\* when the sequence has no entry of that family; the sequence is as it was.
C15_FirstOfFamily ==
    call.op \in {"IPv4", "IPv6"} =>
        LET ips == call.arg.IPs
            at == PlacesOfFamily(ips, call.op = "IPv4")
        IN  /\ call.ret.ip.nil <=> at = {}
            /\ at # {} => call.ret.ip = ips[Lowest(at)]
            /\ call.ret.IPs = ips

\* IPv4() passed over an IPv6 entry and IPv6() found none in a sequence of
\* IPv4 entries only.
C15_Witness ==
    \/ /\ call.op = "IPv4"
       /\ Len(call.arg.IPs) >= 2
       /\ To4(call.arg.IPs[1]).nil
       /\ ~call.ret.ip.nil
    \/ /\ call.op = "IPv6"
       /\ Len(call.arg.IPs) >= 2
       /\ call.ret.ip.nil

\* The frame at the cursor as a destination of blen bytes receives it.
Copied(frame, blen) == SubSeq(frame, 1, Min(blen, Len(frame)))

\* C16: a Read called in Awaiting-Data (cursor = stash length) makes exactly
\* one socket read; a Read called in Draining-Stash (cursor < stash length)
\* makes no socket read, no Decrypt and no Append call and returns the frame
\* at the cursor with no error, whatever the socket's state.  A socket read
\* that yields k >= 1 frames makes them the stash and that Read delivers
\* frame 1; every later Read delivers the next frame and moves the cursor by
\* one, nothing else moves it, so frames 2..k come from the next k-1 Reads
\* and the connection is in Awaiting-Data again exactly after the k-th.
C16_AwaitingAndDraining ==
    /\ [][last'.op = "Read" =>
            LET c == last'.conn
            IN  IF stashId[c] = Len(stash[c])
                THEN /\ last'.sockReads = 1
                     /\ last'.packets >= 1 =>
                           /\ Len(stash'[c]) = last'.packets
                           /\ stashId'[c] = 1
                           /\ last'.err = "none"
                           /\ last'.data = Copied(stash'[c][1], last'.blen)
                     /\ last'.packets = 0 =>
                           /\ stash'[c] = stash[c]
                           /\ stashId'[c] = stashId[c]
                ELSE /\ last'.sockReads = 0
                     /\ last'.decCalls = 0
                     /\ last'.appCalls = 0
                     /\ last'.err = "none"
                     /\ last'.data =
                            Copied(stash[c][stashId[c] + 1], last'.blen)
                     /\ stash'[c] = stash[c]
                     /\ stashId'[c] = stashId[c] + 1
                     /\ wire'[c] = wire[c]]_vars
    /\ [][last'.op # "Read" => stash' = stash /\ stashId' = stashId]_vars

\* One socket read gave two frames; the second came from the stash, on a
\* socket that was closed in between, and the stash is exhausted again.
C16_Witness ==
    /\ last.op = "Read" /\ ~last.awaiting /\ last.sockReads = 0
    /\ Len(stash[1]) = 2 /\ stashId[1] = 2
    /\ closed[1]

IsPrefix(p, q) == Len(p) <= Len(q) /\ SubSeq(q, 1, Len(p)) = p

\* C19: with a single reader, the stash is replaced only by a Read that
\* found it exhausted (cursor = stash length) and whose extractor call
\* returned at least one frame; the frames handed to the caller so far are
\* the first of the frames the extractor returned so far, in that order,
\* each once, and those not yet handed are the ones the stash still holds
\* from the cursor on - after any sequence of Reads, failing and zero-length
\* ones included.
C19_EachFrameOnceInOrder ==
    /\ [][\A c \in Conns :
            stash'[c] # stash[c] =>
                /\ last'.op = "Read" /\ last'.conn = c
                /\ stashId[c] = Len(stash[c])
                /\ last'.packets >= 1]_vars
    /\ [](\A c \in Conns :
            LET ex == hist.extracted[c]
                ha == hist.handed[c]
            IN  /\ Len(ha) <= Len(ex)
                /\ \A i \in 1..Len(ha) :
                       /\ ha[i].n = Len(ex[i])
                       /\ IsPrefix(ha[i].data, ex[i])
                /\ SubSeq(ex, Len(ha) + 1, Len(ex))
                       = SubSeq(stash[c], stashId[c] + 1, Len(stash[c])))

\* Two different frames came from one extractor call and both were handed
\* over, the second whole.
C19_Witness ==
    /\ Len(hist.extracted[1]) = 2
    /\ hist.extracted[1][1] # hist.extracted[1][2]
    /\ Len(hist.handed[1]) = 2
    /\ hist.handed[1][2].data = hist.extracted[1][2]
    /\ Len(stash[1]) = 2

\* What the j-th connection of heap h holds and refers to: stash, cursor,
\* scratch buffer, extractor and socket.
Owned(h, j) ==
    [stash |-> h.conns[j].stash, stashId |-> h.conns[j].stashId,
     buffer |-> h.buffers[h.conns[j].buffer],
     destick |-> h.desticks[h.conns[j].destick],
     sock |-> h.socks[h.conns[j].conn]]

\* C17: a connection made by Accept or DialTCP starts with an empty stash,
\* cursor 0 and a fresh extractor, buffer and socket that no other
\* connection refers to, and holds the codec reference it was made with (the
\* listener's for Accept); Read, Write and Close on one connection leave the
\* stash, cursor, extractor and socket of every other connection as they
\* were; no operation changes the listener's or a connection's codec
\* reference.
C17_ConnectionsIsolated ==
    /\ [][Len(srv'.conns) # Len(srv.conns) =>
            LET n == Len(srv'.conns)
                new == srv'.conns[n]
            IN  /\ n = Len(srv.conns) + 1
                /\ new.stash = <<>> /\ new.stashId = 0
                /\ srv'.desticks[new.destick] = NewDesticker
                /\ srv'.socks[new.conn].wire = <<>>
                /\ new.crypt = srv.crypt
                /\ \A j \in 1..Len(srv.conns) :
                       /\ srv.conns[j].destick # new.destick
                       /\ srv.conns[j].buffer # new.buffer
                       /\ srv.conns[j].conn # new.conn
                       /\ Owned(srv', j) = Owned(srv, j)]_vars
    /\ [][\A j \in 1..Len(srv.conns) :
              j # srv'.last => Owned(srv', j) = Owned(srv, j)]_vars
    /\ [][/\ srv'.crypt = srv.crypt
          /\ \A j \in 1..Len(srv.conns) :
                 srv'.conns[j].crypt = srv.conns[j].crypt]_vars

\* Two connections: the first has a partial frame in its extractor; the
\* second was just read from and holds a frame in its stash, its own
\* extractor empty.
C17_Witness ==
    /\ Len(srv.conns) = 2
    /\ srv.last = 2
    /\ srv.desticks[srv.conns[1].destick].buf # <<>>
    /\ srv.conns[2].stash # <<>>
    /\ srv.desticks[srv.conns[2].destick].buf = <<>>

\* One whole Read, and one whole Write, on connection state c with
\* arguments arg: the state left and the result returned.
WholeRead(c, arg) ==
    LET r == ReadCall(c.stash, c.stashId, c.destick, c.buffer, arg.blen,
                      arg.rso, c.wire, crypt, now)
    IN  [c |-> [c EXCEPT !.stash = r.stash, !.stashId = r.stashId,
                         !.destick = r.destick, !.buffer = r.buffer,
                         !.wire = SubSeq(@, r.taken + 1, Len(@))],
         ret |-> [n |-> r.n, err |-> r.err, data |-> r.data]]
WholeWrite(c, arg) ==
    LET r == WriteCall(crypt, arg.b, arg.encOk, arg.wso)
    IN  [c |-> [c EXCEPT !.out = IF r.sockWrites > 0 /\ arg.wso = "none"
                                 THEN @ \o r.sockData ELSE @],
         ret |-> [n |-> r.n, err |-> r.err]]

ReceiveState(c) == <<c.buffer, c.destick, c.stash, c.stashId, c.wire>>

\* C18: with one Read and one Write in progress on the same connection, no
\* step of Write changes the receive state (scratch buffer, extractor, stash,
\* cursor) and no step of Read changes the send path; when both have
\* returned, however their steps were interleaved, each has the result and
\* the connection the state that Read then Write gives, and that Write then
\* Read gives.
C18_ReadWriteCommute ==
    /\ [][race'.wpc # race.wpc =>
            /\ ReceiveState(race'.c) = ReceiveState(race.c)
            /\ race'.rret = race.rret]_vars
    /\ [][race'.rpc # race.rpc =>
            /\ race'.c.out = race.c.out
            /\ race'.contents = race.contents
            /\ race'.wret = race.wret]_vars
    /\ []((race.rpc = "done" /\ race.wpc = "done") =>
            LET rw == WholeWrite(WholeRead(race.c0, race.arg).c, race.arg)
                wr == WholeRead(WholeWrite(race.c0, race.arg).c, race.arg)
            IN  /\ race.c = rw.c
                /\ race.c = wr.c
                /\ race.rret = WholeRead(race.c0, race.arg).ret
                /\ race.rret = wr.ret
                /\ race.wret = WholeWrite(race.c0, race.arg).ret
                /\ race.wret = rw.ret)

\* Both calls have returned, Read with a frame it took from the socket and
\* Write with the count of what it gave the socket.
C18_Witness ==
    /\ race.rpc = "done" /\ race.wpc = "done"
    /\ race.c0.stashId = Len(race.c0.stash)
    /\ race.rret.err = "none" /\ race.rret.n > 0
    /\ race.wret.err = "none" /\ race.wret.n > 0
    /\ race.c.out # <<>>
====
